---- MODULE Spec2Model ----
(***************************************************************************)
(* State-machine model of the AI Security Analyst Assistant API:           *)
(*   - the token service  (app/services/auth_service.py, auth_route.py)    *)
(*   - the analysis pipeline (app/services/analyze_service.py,             *)
(*     app/route/analyze_route.py, app/data/db_config.py)                  *)
(* Time is in whole seconds since the epoch.  Strings that the code slices *)
(* are sequences of one-character strings.                                 *)
(***************************************************************************)
EXTENDS Integers, Sequences, FiniteSets, TLC

VARIABLES
    now,            \* true epoch time of the host clock (seconds)
    tzOffset,       \* host local-time offset from UTC (seconds, east positive)
    pyjwtChecksIat, \* the installed PyJWT rejects iat in the future (>= 2.6) or not
    tokens,         \* tokens handed out so far (bearer tokens held by clients)
    resp,           \* the last HTTP response of the auth routes
    ticks,          \* number of clock steps taken
    issues,         \* number of issue_tokens calls made
    promptExists,   \* app/prompts/system_prompt.txt exists
    clientReady,    \* _openai_client was built and OPENAI_API_KEY is set
    dbAvailable,    \* the SQLite file can be opened and written
    analyses,       \* the rows of table analyses, in insertion order
    call,           \* per client: the POST /analyze request in progress
    started         \* number of analyze requests started

authVars == <<now, tzOffset, pyjwtChecksIat, tokens, resp, ticks, issues>>
anaVars == <<promptExists, clientReady, dbAvailable, analyses, call, started>>
vars == <<authVars, anaVars>>

----------------------------------------------------------------------------
(* Bounds of the model *)
MaxTicks == 3
MaxIssues == 2
MaxRequests == 2

(* Configuration, auth_service.py *)
JWT_SECRET == "dev-secret"
ACCESS_MIN == 60
REFRESH_MIN == 1440
ISSUER == "aisa.local"

None == "None"
\* Python None where a dict / row / token is expected
Nil == [nil |-> TRUE]

TickSteps == {ACCESS_MIN * 60, REFRESH_MIN * 60 - ACCESS_MIN * 60}
TzOffsets == {0 - ACCESS_MIN * 60, 0, ACCESS_MIN * 60}

----------------------------------------------------------------------------
(* Credential store: the users table read by verify_user *)
Usernames == {"alice", "carol", "bob", "nouser"}
Passwords == {"pw-a", "pw-c", "x"}

\* bcrypt.hashpw: a one-way image of the password (salt abstracted)
bcrypt_hashpw(p) == <<"$2b$", p>>
\* bcrypt.checkpw(password, hash)
bcrypt_checkpw(p, h) == bcrypt_hashpw(p) = h

UsersTable ==
    { [username |-> "alice", password_hash |-> bcrypt_hashpw("pw-a"), role |-> "admin",   is_active |-> 1],
      [username |-> "carol", password_hash |-> bcrypt_hashpw("pw-c"), role |-> "analyst", is_active |-> 1],
      [username |-> "bob",   password_hash |-> bcrypt_hashpw("x"),    role |-> "admin",   is_active |-> 0] }

\* "with get_connection() as conn: ..." seen when the enclosing function
\* reaches its return: sqlite3's context manager commits or rolls back and
\* leaves the connection open; no close() follows in the code
with_get_connection(dbOk) == IF dbOk THEN "open" ELSE "none"

\* SELECT ... FROM users WHERE username=? ... fetchone()
fetchone(username) ==
    IF \E r \in UsersTable : r.username = username
    THEN CHOOSE r \in UsersTable : r.username = username
    ELSE Nil

verify_user_no_active_check(username, password) ==
    LET row == fetchone(username) IN
    IF row = Nil THEN Nil
    ELSE IF ~bcrypt_checkpw(password, row.password_hash) THEN Nil
    ELSE row

verify_user(username, password) ==
    LET row == fetchone(username) IN
    IF row = Nil \/ row.is_active = 0 THEN Nil
    ELSE IF ~bcrypt_checkpw(password, row.password_hash) THEN Nil
    ELSE row

----------------------------------------------------------------------------
(* Tokens.  A token is its payload plus the key it was signed with. *)

\* datetime.utcnow(): a naive datetime holding the UTC wall clock
utcnow == now
\* naive datetime .timestamp(): the wall clock is read as host LOCAL time
timestamp(naive) == naive - tzOffset

_jwt(nowNaive, sub, role, minutes, typ) ==
    [sub |-> sub, role |-> role, typ |-> typ,
     iat |-> timestamp(nowNaive),
     exp |-> timestamp(nowNaive + minutes * 60),
     iss |-> ISSUER,
     key |-> JWT_SECRET]

issue_tokens(username, role) ==
    [access  |-> _jwt(utcnow, username, role, ACCESS_MIN, "access"),
     refresh |-> _jwt(utcnow, username, role, REFRESH_MIN, "refresh")]

Payload(tok) == [sub |-> tok.sub, role |-> tok.role, typ |-> tok.typ,
                 iat |-> tok.iat, exp |-> tok.exp, iss |-> tok.iss]

Ok(claims) == [ok |-> TRUE, claims |-> claims, exc |-> None]
Raise(exc) == [ok |-> FALSE, claims |-> Nil, exc |-> exc]

\* jwt.decode(token, key, algorithms=[JWT_ALG]) evaluated at true time t:
\* signature first, then iat, then exp; no issuer= argument, so iss is not read
jwt_decode_exp_strict(tok, key, t) ==
    IF tok.key # key THEN Raise("InvalidSignatureError")
    ELSE IF pyjwtChecksIat /\ tok.iat > t THEN Raise("ImmatureSignatureError")
    ELSE IF tok.exp < t THEN Raise("ExpiredSignatureError")
    ELSE Ok(Payload(tok))

jwt_decode(tok, key, t) ==
    IF tok.key # key THEN Raise("InvalidSignatureError")
    ELSE IF pyjwtChecksIat /\ tok.iat > t THEN Raise("ImmatureSignatureError")
    ELSE IF tok.exp <= t THEN Raise("ExpiredSignatureError")
    ELSE Ok(Payload(tok))

verify_access(tok, t) ==
    LET d == jwt_decode(tok, JWT_SECRET, t) IN
    IF ~d.ok THEN d
    ELSE IF d.claims.typ # "access" THEN Raise("ValueError")
    ELSE d

verify_refresh(tok, t) ==
    LET d == jwt_decode(tok, JWT_SECRET, t) IN
    IF ~d.ok THEN d
    ELSE IF d.claims.typ # "refresh" THEN Raise("ValueError")
    ELSE d

\* What a client can present: a token it holds, or one derived from it
Presentable(tok) ==
    { tok,
      [tok EXCEPT !.key = "other-secret"],
      [tok EXCEPT !.iss = "evil.example"],
      [tok EXCEPT !.iss = None] }

\* The error kinds of the design, from the exception raised
ErrorKind(exc) ==
    CASE exc = "ExpiredSignatureError" -> "ExpiredToken"
      [] exc = "InvalidSignatureError" -> "BadSignature"
      [] exc = "ValueError"            -> "WrongTokenType"
      [] OTHER                         -> exc

----------------------------------------------------------------------------
(* HTTP responses of the auth routes *)
NoResp == [op |-> None, status |-> 0, detail |-> <<>>, pair |-> Nil,
           claims |-> Nil, presented |-> Nil, cause |-> None,
           at |-> 0, readsCreds |-> FALSE, user |-> Nil,
           conn |-> "none"]   \* verify_user's connection when it returns

HTTPException(op, status, detail, presented, cause, reads) ==
    [NoResp EXCEPT !.op = op, !.status = status, !.detail = detail,
                   !.presented = presented, !.cause = cause, !.at = now,
                   !.readsCreds = reads]

\* an exception nobody catches: the server answers 500
Unhandled(op, presented, cause, reads) ==
    HTTPException(op, 500, <<"Internal Server Error">>, presented, cause, reads)

\* why a login would fail, from the store (diagnostic only)
LoginCase(username, password) ==
    LET row == fetchone(username) IN
    IF row = Nil THEN "no_such_user"
    ELSE IF row.is_active = 0 THEN "inactive"
    ELSE IF ~bcrypt_checkpw(password, row.password_hash) THEN "wrong_password"
    ELSE "match"

\* POST /auth/login
login(username, password) ==
    LET user == verify_user(username, password) IN
    IF user = Nil
    THEN /\ resp' = [HTTPException("login", 401, <<"invalid credentials">>,
                                   Nil, LoginCase(username, password), TRUE)
                        EXCEPT !.conn = with_get_connection(TRUE)]
         /\ UNCHANGED <<tokens, issues>>
    ELSE LET pair == issue_tokens(user.username, user.role) IN
         /\ resp' = [NoResp EXCEPT !.op = "login", !.status = 200, !.pair = pair,
                                   !.cause = LoginCase(username, password),
                                   !.at = now, !.readsCreds = TRUE,
                                   !.conn = with_get_connection(TRUE),
                                   !.user = [username |-> username, password |-> password]]
         /\ tokens' = tokens \cup {pair.access, pair.refresh}
         /\ issues' = issues + 1

\* POST /auth/refresh
refresh(tok) ==
    LET v == verify_refresh(tok, now) IN
    IF ~v.ok
    THEN /\ resp' = Unhandled("refresh", tok, ErrorKind(v.exc), FALSE)
         /\ UNCHANGED <<tokens, issues>>
    ELSE LET pair == issue_tokens(v.claims.sub, v.claims.role) IN
         /\ resp' = [NoResp EXCEPT !.op = "refresh", !.status = 200, !.pair = pair,
                                   !.presented = tok, !.claims = v.claims,
                                   !.at = now, !.readsCreds = FALSE]
         /\ tokens' = tokens \cup {pair.access, pair.refresh}
         /\ issues' = issues + 1

\* require_jwt(authorization): Nil is an absent header, otherwise "Bearer <tok>"
require_jwt(authorization) ==
    IF authorization = Nil
    THEN [ok |-> FALSE, status |-> 401, detail |-> <<"missing bearer token">>,
          claims |-> Nil, cause |-> "MissingBearer"]
    ELSE LET v == verify_access(authorization, now) IN
         IF v.ok
         THEN [ok |-> TRUE, status |-> 200, detail |-> <<>>,
               claims |-> v.claims, cause |-> None]
         ELSE [ok |-> FALSE, status |-> 401,
               detail |-> <<"invalid token: ", v.exc>>,
               claims |-> Nil, cause |-> ErrorKind(v.exc)]

----------------------------------------------------------------------------
(* The analysis pipeline *)

Clients == {"c1", "c2"}

OPENAI_MODEL == "gpt-3.5-turbo"

\* text[:n]
Take(text, n) == SubSeq(text, 1, IF Len(text) < n THEN Len(text) ELSE n)

RECURSIVE Count(_, _)
Count(seq, x) ==
    IF seq = <<>> THEN 0
    ELSE (IF Head(seq) = x THEN 1 ELSE 0) + Count(Tail(seq), x)

\* position of the first x in seq, 0 when absent
RECURSIVE IndexFrom(_, _, _)
IndexFrom(seq, x, i) ==
    IF i > Len(seq) THEN 0
    ELSE IF seq[i] = x THEN i
    ELSE IndexFrom(seq, x, i + 1)
Index(seq, x) == IndexFrom(seq, x, 1)

\* len() of the strings the templates embed
StrLen(str) ==
    CASE str = "risk_assessment"  -> 15
      [] str = "event_summary"    -> 13
      [] str = "policy_alignment" -> 16
      [] str = "Not specified"    -> 13
      [] str = "last 24h"         -> 8
      [] str = "logs"             -> 4
      [] str = "access_records"   -> 14
      [] str = "policy_text"      -> 11

\* len(str(list_of_strings)): brackets, quoted items, ", " separators
RECURSIVE ReprItemsLen(_)
ReprItemsLen(items) ==
    IF items = <<>> THEN 0
    ELSE StrLen(Head(items)) + 2 + (IF Len(items) > 1 THEN 2 ELSE 0)
         + ReprItemsLen(Tail(items))
ReprLen(items) == 2 + ReprItemsLen(items)

\* the content of the prompt file (opaque text)
SystemPrompt == <<"S", "Y", "S">>

load_system_prompt(exists) ==
    IF ~exists THEN Raise("FileNotFoundError")
    ELSE [ok |-> TRUE, claims |-> Nil, exc |-> None, text |-> SystemPrompt]

\* build_user_instruction(req): the instruction, kept as its parts and length
build_user_instruction(req) ==
    LET inputs == IF req.inputs = <<>> THEN <<"logs", "access_records", "policy_text">>
                  ELSE req.inputs
        time_window == IF req.time_window = None THEN "Not specified"
                       ELSE req.time_window
        tail == 21 + StrLen(time_window) + 10 + ReprLen(inputs) + 34 + Len(req.input_text)
    IN  IF req.output_format = "json"
        THEN [template |-> "json", schema |-> req.schema, time_window |-> time_window,
              inputs |-> inputs, input_text |-> req.input_text,
              len |-> 10 + StrLen(req.schema) + 56 + tail]
        ELSE [template |-> "markdown", schema |-> None, time_window |-> time_window,
              inputs |-> inputs, input_text |-> req.input_text,
              len |-> 62 + tail]

\* What the backend may answer
TextObject  == <<"{", "\"", "a", "\"", ":", "1", "}">>
TextList    == <<"[", "1", "]">>
TextNotJson == <<"n", "o", "t", " ", "j", "s", "o", "n">>
BackendTexts == {TextObject, TextList, TextNotJson}
BackendOutcomes == {[raises |-> TRUE, text |-> <<>>]}
                   \cup {[raises |-> FALSE, text |-> t] : t \in BackendTexts}

\* call_openai(messages): ready is the client/key check, outcome what the one
\* chat.completions.create call does
call_openai(ready, outcome) ==
    IF ~ready THEN [ok |-> FALSE, exc |-> "RuntimeError", text |-> <<>>, invoked |-> FALSE]
    ELSE IF outcome.raises
         THEN [ok |-> FALSE, exc |-> "RuntimeError", text |-> <<>>, invoked |-> TRUE]
         ELSE [ok |-> TRUE, exc |-> None, text |-> outcome.text, invoked |-> TRUE]

audit_save_untruncated(table, dbOk, model, output_format, schema, prompt_chars, input_text, response_text) ==
    IF ~dbOk THEN table
    ELSE Append(table,
                [created_at |-> now, model |-> model, output_format |-> output_format,
                 schema |-> schema, prompt_chars |-> prompt_chars,
                 input_preview |-> input_text,
                 response_preview |-> Take(response_text, 1000)])

audit_save_deduplicating(table, dbOk, model, output_format, schema, prompt_chars, input_text, response_text) ==
    IF ~dbOk THEN table
    ELSE IF \E i \in 1..Len(table) :
                /\ table[i].input_preview = Take(input_text, 500)
                /\ table[i].response_preview = Take(response_text, 1000)
                /\ table[i].output_format = output_format
    THEN table
    ELSE Append(table,
                [created_at |-> now, model |-> model, output_format |-> output_format,
                 schema |-> schema, prompt_chars |-> prompt_chars,
                 input_preview |-> Take(input_text, 500),
                 response_preview |-> Take(response_text, 1000)])

\* audit_save(...): the table after the call; every sqlite error is swallowed
audit_save(table, dbOk, model, output_format, schema, prompt_chars, input_text, response_text) ==
    IF ~dbOk THEN table
    ELSE Append(table,
                [created_at |-> now, model |-> model, output_format |-> output_format,
                 schema |-> schema, prompt_chars |-> prompt_chars,
                 input_preview |-> Take(input_text, 500),
                 response_preview |-> Take(response_text, 1000)])

\* json.loads on the texts above: an object, another JSON value, or no JSON
json_loads(text) ==
    IF text # <<>> /\ Head(text) = "{" /\ text[Len(text)] = "}"
    THEN [ok |-> TRUE, kind |-> "dict", value |-> text]
    ELSE IF text # <<>> /\ Head(text) = "[" /\ text[Len(text)] = "]"
    THEN [ok |-> TRUE, kind |-> "list", value |-> text]
    ELSE IF text = <<"n", "u", "l", "l">>
    THEN [ok |-> TRUE, kind |-> "NoneType", value |-> text]
    ELSE [ok |-> FALSE, kind |-> None, value |-> <<>>]

try_parse_json(text) ==
    LET j == json_loads(text) IN
    IF j.ok
    THEN [ok |-> TRUE, parsed |-> [kind |-> j.kind, value |-> j.value], err |-> <<>>]
    ELSE [ok |-> FALSE, parsed |-> Nil,
          err |-> <<"Invalid JSON: JSONDecodeError. Raw: ", Take(text, 500)>>]

\* Requests the validation layer lets through
Requests ==
    { [input_text |-> <<"l", "o", "g">>, output_format |-> "json",
       schema |-> "risk_assessment", time_window |-> None, inputs |-> <<>>],
      [input_text |-> <<"l", "o", "g">>, output_format |-> "markdown",
       schema |-> "event_summary", time_window |-> "last 24h", inputs |-> <<"logs">>] }

\* Authorization headers a caller may send: none, or Bearer <token>
Headers == {Nil} \cup {t \in tokens : t.typ = "access"}
           \cup {[t EXCEPT !.key = "other-secret"] : t \in {u \in tokens : u.typ = "access"}}

\* Dependencies FastAPI runs before the analyze handler: none is declared on
\* the route, on its router, or where main.py includes the router
AnalyzeDependencies == {}

Idle == [pc |-> "idle", req |-> Nil, authorization |-> Nil, verified |-> FALSE,
         prompt_chars |-> 0, system_prompt |-> <<>>, assistant_text |-> <<>>,
         events |-> <<>>, status |-> 0, detail |-> <<>>, body |-> Nil,
         row_id |-> 0,       \* lastrowid of the audit insert, 0 when none
         conn |-> "none"]    \* audit_save's connection when it returns

Finish(st, event, status, detail, body) ==
    [st EXCEPT !.pc = "done", !.events = Append(st.events, event),
               !.status = status, !.detail = detail, !.body = body]

\* an exception leaving the handler: the server answers 500, no body
Fail500(st, event) ==
    Finish(st, event, 500, <<"Internal Server Error">>, Nil)

\* where run_analysis goes after call_openai returned or raised
after_call_always_audit(result) == "audit_save"

after_call(result) == IF result.ok THEN "audit_save" ELSE "raise"

\* POST /analyze arrives: dependencies run, then the handler is entered
DispatchFrom(c, requests, headers) ==
    /\ call[c].pc \in {"idle", "done"}
    /\ started < MaxRequests
    /\ \E req \in requests, h \in headers :
          LET st == [Idle EXCEPT !.req = req, !.authorization = h] IN
          IF "require_jwt" \in AnalyzeDependencies
          THEN LET r == require_jwt(h) IN
               IF r.ok
               THEN call' = [call EXCEPT ![c] =
                        [st EXCEPT !.pc = "init_db", !.verified = TRUE,
                                   !.events = <<"verify_ok">>]]
               ELSE call' = [call EXCEPT ![c] =
                        Finish(st, "verify_failed", r.status, r.detail, Nil)]
          ELSE call' = [call EXCEPT ![c] = [st EXCEPT !.pc = "init_db"]]
    /\ started' = started + 1
    /\ UNCHANGED <<promptExists, clientReady, dbAvailable, analyses>>
    /\ UNCHANGED authVars

Dispatch(c) == DispatchFrom(c, Requests, Headers)

\* run_analysis: init_db()
InitDb(c) ==
    /\ call[c].pc = "init_db"
    /\ call' = [call EXCEPT ![c] =
          IF dbAvailable
          THEN [@ EXCEPT !.pc = "load_system_prompt", !.events = Append(@, "init_db")]
          ELSE Fail500(@, "init_db_failed")]
    /\ UNCHANGED <<promptExists, clientReady, dbAvailable, analyses, started>>
    /\ UNCHANGED authVars

\* run_analysis: load_system_prompt(), build_user_instruction(req)
LoadPrompt(c) ==
    /\ call[c].pc = "load_system_prompt"
    /\ LET p == load_system_prompt(promptExists) IN
       call' = [call EXCEPT ![c] =
          IF p.ok
          THEN [@ EXCEPT !.pc = "call_openai",
                         !.events = Append(@, "prompt_load"),
                         !.system_prompt = p.text,
                         !.prompt_chars = Len(p.text) + build_user_instruction(call[c].req).len]
          ELSE Fail500(@, "prompt_missing")]
    /\ UNCHANGED <<promptExists, clientReady, dbAvailable, analyses, started>>
    /\ UNCHANGED authVars

\* run_analysis: assistant_text = call_openai(messages)
CallOpenaiWith(c, outcomes) ==
    /\ call[c].pc = "call_openai"
    /\ \E outcome \in outcomes :
          LET r == call_openai(clientReady, outcome)
              ev == IF r.invoked
                    THEN <<"backend_call", IF r.ok THEN "backend_ok" ELSE "backend_failed">>
                    ELSE <<"backend_unavailable">>
          IN  call' = [call EXCEPT ![c] =
                 IF after_call(r) = "audit_save"
                 THEN [@ EXCEPT !.pc = "audit_save", !.events = @ \o ev,
                                !.assistant_text = r.text]
                 ELSE Fail500([@ EXCEPT !.events = @ \o ev], "raise")]
    /\ UNCHANGED <<promptExists, clientReady, dbAvailable, analyses, started>>
    /\ UNCHANGED authVars

CallOpenai(c) == CallOpenaiWith(c, BackendOutcomes)

\* run_analysis: audit_save(...)
AuditSave(c) ==
    /\ call[c].pc = "audit_save"
    /\ LET st == call[c]
           table == audit_save(analyses, dbAvailable, OPENAI_MODEL,
                               st.req.output_format,
                               IF st.req.output_format = "json" THEN st.req.schema ELSE None,
                               st.prompt_chars, st.req.input_text, st.assistant_text)
       IN  /\ analyses' = table
           /\ call' = [call EXCEPT ![c] =
                 [@ EXCEPT !.pc = "return",
                           !.events = @ \o (IF table # analyses
                                            THEN <<"audit_attempt", "audit_row">>
                                            ELSE <<"audit_attempt">>),
                           !.row_id = IF table # analyses THEN Len(table) ELSE 0,
                           !.conn = with_get_connection(dbAvailable)]]
    /\ UNCHANGED <<promptExists, clientReady, dbAvailable, started>>
    /\ UNCHANGED authVars

\* run_analysis returns assistant_text; analyze shapes the response
Return(c) ==
    /\ call[c].pc = "return"
    /\ LET st == [call[c] EXCEPT !.events = Append(@, "return_text")]
           text == st.assistant_text
       IN  call' = [call EXCEPT ![c] =
              IF st.req.output_format = "json"
              THEN LET p == try_parse_json(text) IN
                   IF ~p.ok \/ p.parsed = Nil \/ p.parsed.kind = "NoneType"
                   THEN Finish(st, "invalid_json", 500,
                               <<"Assistant returned invalid JSON. ">> \o p.err, Nil)
                   ELSE IF p.parsed.kind # "dict"
                   THEN Fail500(st, "validation_error")
                   ELSE Finish(st, "response", 200, <<>>, [data |-> p.parsed])
              ELSE Finish(st, "response", 200, <<>>, [markdown |-> text])]
    /\ UNCHANGED <<promptExists, clientReady, dbAvailable, analyses, started>>
    /\ UNCHANGED authVars

\* the environment: the prompt file is removed or restored
PromptFlip ==
    /\ promptExists' = ~promptExists
    /\ UNCHANGED <<clientReady, dbAvailable, analyses, call, started>>
    /\ UNCHANGED authVars

\* the environment: the database file becomes unusable or usable again
DbFlip ==
    /\ dbAvailable' = ~dbAvailable
    /\ UNCHANGED <<promptExists, clientReady, analyses, call, started>>
    /\ UNCHANGED authVars

AnaIdle ==
    /\ promptExists = TRUE
    /\ clientReady = TRUE
    /\ dbAvailable = TRUE
    /\ analyses = <<>>
    /\ call = [c \in Clients |-> Idle]
    /\ started = 0

\* a UTC host on which alice has logged in
InitAnalyze ==
    /\ now = REFRESH_MIN * 60
    /\ tzOffset = 0
    /\ pyjwtChecksIat \in BOOLEAN
    /\ tokens = {_jwt(REFRESH_MIN * 60, "alice", "admin", ACCESS_MIN, "access"),
                 _jwt(REFRESH_MIN * 60, "alice", "admin", REFRESH_MIN, "refresh")}
    /\ resp = NoResp
    /\ ticks = 0
    /\ issues = 1
    /\ promptExists \in BOOLEAN
    /\ clientReady \in BOOLEAN
    /\ dbAvailable \in BOOLEAN
    /\ analyses = <<>>
    /\ call = [c \in Clients |-> Idle]
    /\ started = 0

NextAnalyze ==
    \/ \E c \in Clients : Dispatch(c)
    \/ \E c \in Clients : InitDb(c)
    \/ \E c \in Clients : LoadPrompt(c)
    \/ \E c \in Clients : CallOpenai(c)
    \/ \E c \in Clients : AuditSave(c)
    \/ \E c \in Clients : Return(c)
    \/ PromptFlip
    \/ DbFlip

SpecAnalyze == InitAnalyze /\ [][NextAnalyze]_vars

----------------------------------------------------------------------------
(* The audit sink on texts around the preview limits: one client, requests
   and backend answers of chosen lengths *)

Alphabet == <<"a", "b", "c", "d", "e", "f", "g">>
\* a text of n characters in which no two neighbours are equal
MakeText(n) == [i \in 1..n |-> Alphabet[(i % 7) + 1]]

PreviewInputLens == {0, 500, 501, 10000}
PreviewResponseLens == {0, 1000, 1001}

PreviewRequests ==
    { [input_text |-> MakeText(n), output_format |-> "markdown",
       schema |-> "event_summary", time_window |-> None, inputs |-> <<>>]
      : n \in PreviewInputLens }

PreviewOutcomes ==
    { [raises |-> FALSE, text |-> MakeText(n)] : n \in PreviewResponseLens }

InitPreview ==
    /\ now = REFRESH_MIN * 60
    /\ tzOffset = 0
    /\ pyjwtChecksIat = TRUE
    /\ tokens = {}
    /\ resp = NoResp
    /\ ticks = 0
    /\ issues = 0
    /\ promptExists = TRUE
    /\ clientReady = TRUE
    /\ dbAvailable \in BOOLEAN
    /\ analyses = <<>>
    /\ call = [c \in Clients |-> Idle]
    /\ started = 0

NextPreview ==
    \/ DispatchFrom("c1", PreviewRequests, {Nil})
    \/ InitDb("c1")
    \/ LoadPrompt("c1")
    \/ CallOpenaiWith("c1", PreviewOutcomes)
    \/ AuditSave("c1")
    \/ Return("c1")
    \/ DbFlip

SpecPreview == InitPreview /\ [][NextPreview]_vars

----------------------------------------------------------------------------
(* Actions of the token service *)
Tick ==
    /\ ticks < MaxTicks
    /\ \E d \in TickSteps : now' = now + d
    /\ ticks' = ticks + 1
    /\ UNCHANGED <<tzOffset, pyjwtChecksIat, tokens, resp, issues>>
    /\ UNCHANGED anaVars

Login ==
    /\ issues < MaxIssues
    /\ \E u \in Usernames, p \in Passwords : login(u, p)
    /\ UNCHANGED <<now, tzOffset, pyjwtChecksIat, ticks>>
    /\ UNCHANGED anaVars

Refresh ==
    /\ issues < MaxIssues
    /\ \E t \in tokens : \E tok \in Presentable(t) : refresh(tok)
    /\ UNCHANGED <<now, tzOffset, pyjwtChecksIat, ticks>>
    /\ UNCHANGED anaVars

\* a route guarded by Depends(require_jwt), seen from the caller
Protected ==
    /\ \E h \in {Nil} \cup UNION {Presentable(t) : t \in tokens} :
          LET r == require_jwt(h) IN
          resp' = [NoResp EXCEPT !.op = "require_jwt", !.status = r.status,
                                 !.detail = r.detail, !.claims = r.claims,
                                 !.presented = h, !.cause = r.cause, !.at = now]
    /\ UNCHANGED <<now, tzOffset, pyjwtChecksIat, tokens, ticks, issues>>
    /\ UNCHANGED anaVars

InitAuth ==
    /\ now = REFRESH_MIN * 60
    /\ tzOffset \in TzOffsets
    /\ pyjwtChecksIat \in BOOLEAN
    /\ tokens = {}
    /\ resp = NoResp
    /\ ticks = 0
    /\ issues = 0
    /\ AnaIdle

NextAuth == Tick \/ Login \/ Refresh \/ Protected

SpecAuth == InitAuth /\ [][NextAuth]_vars

----------------------------------------------------------------------------
(* Concurrent analyze calls against a deterministic backend stub, in a
   healthy environment, with the clock running *)

\* the stub: the answer is a function of the messages, hence of the request
StubOutcome(req) ==
    [raises |-> FALSE,
     text |-> IF req.output_format = "json" THEN TextObject ELSE TextNotJson]

CallStub(c) ==
    /\ call[c].req # Nil
    /\ CallOpenaiWith(c, {StubOutcome(call[c].req)})

InitConcurrent ==
    /\ now = REFRESH_MIN * 60
    /\ tzOffset = 0
    /\ pyjwtChecksIat = TRUE
    /\ tokens = {}
    /\ resp = NoResp
    /\ ticks = 0
    /\ issues = 0
    /\ promptExists = TRUE
    /\ clientReady = TRUE
    /\ dbAvailable = TRUE
    /\ analyses = <<>>
    /\ call = [c \in Clients |-> Idle]
    /\ started = 0

NextConcurrent ==
    \/ \E c \in Clients : DispatchFrom(c, Requests, {Nil})
    \/ \E c \in Clients : InitDb(c)
    \/ \E c \in Clients : LoadPrompt(c)
    \/ \E c \in Clients : CallStub(c)
    \/ \E c \in Clients : AuditSave(c)
    \/ \E c \in Clients : Return(c)
    \/ Tick

SpecConcurrent == InitConcurrent /\ [][NextConcurrent]_vars

----------------------------------------------------------------------------
(* Claims about the token service, checked under SpecAuth *)

TokenErrorKinds == {"ExpiredToken", "BadSignature", "WrongTokenType"}
VerifyOps == {"refresh", "require_jwt"}

\* C2: for every login matching an active user, at every clock reading and
\* every host offset from UTC, the issued pair verifies at the moment of
\* issuance, carries the user's sub and role, iat = now and
\* exp = iat + lifetime (60 min access, 1440 min refresh).
C2_IssuedPairVerifiesAtIssuance ==
    (resp.op = "login" /\ resp.status = 200) =>
        LET a == verify_access(resp.pair.access, resp.at)
            r == verify_refresh(resp.pair.refresh, resp.at)
            u == fetchone(resp.user.username)
        IN  /\ a.ok /\ r.ok
            /\ a.claims.sub = u.username /\ a.claims.role = u.role
            /\ r.claims.sub = u.username /\ r.claims.role = u.role
            /\ a.claims.iat = resp.at /\ r.claims.iat = resp.at
            /\ a.claims.exp = a.claims.iat + ACCESS_MIN * 60
            /\ r.claims.exp = r.claims.iat + REFRESH_MIN * 60

\* C3: a token whose issuer is not "aisa.local" (different or missing) is
\* rejected by verify_access and verify_refresh even when it is correctly
\* signed, unexpired and of the matching type.
C3_ForeignIssuerRejected ==
    (resp.op \in VerifyOps /\ resp.presented # Nil /\ resp.presented.iss # ISSUER)
        => resp.status # 200

\* C4: every token-verification failure (expired, bad signature, wrong type)
\* is answered 401 with the one generic "invalid token" message, at
\* /auth/refresh and at require_jwt alike, whatever the failure kind.
C4_TokenFailureIsGeneric401 ==
    (resp.op \in VerifyOps /\ resp.cause \in TokenErrorKinds)
        => (resp.status = 401 /\ resp.detail = <<"invalid token">>)

\* C5 as stated: once now >= exp, verification fails with ExpiredToken
\* whether or not the signature is valid and whatever the type.
C5_ExpiredKindRegardlessOfSignature ==
    (resp.op \in VerifyOps /\ resp.presented # Nil /\ resp.at >= resp.presented.exp)
        => (resp.status # 200 /\ resp.cause = "ExpiredToken")

\* C5 amended: once now >= exp no token is accepted; the failure is
\* ExpiredToken when the signature is valid (whatever the type) and
\* BadSignature when it is not.
C5_ExpiredNeverAccepted ==
    (resp.op \in VerifyOps /\ resp.presented # Nil /\ resp.at >= resp.presented.exp)
        => /\ resp.status # 200
           /\ resp.pair = Nil /\ resp.claims = Nil
           /\ (resp.presented.key = JWT_SECRET => resp.cause = "ExpiredToken")
           /\ (resp.presented.key # JWT_SECRET => resp.cause = "BadSignature")

\* the boundary now = exp, with a valid signature
C5_Witness ==
    /\ resp.op \in VerifyOps /\ resp.presented # Nil
    /\ resp.presented.key = JWT_SECRET
    /\ resp.at = resp.presented.exp
    /\ resp.cause = "ExpiredToken"

\* C6: a validly signed, unexpired access token presented to verify_refresh,
\* or refresh token presented to verify_access, fails with the
\* wrong-token-type error; no pair is issued, no claims are returned.
C6_WrongTypeRejectedAsWrongType ==
    ( /\ resp.presented # Nil
      /\ resp.presented.key = JWT_SECRET
      /\ resp.at < resp.presented.exp
      /\ \/ (resp.op = "refresh" /\ resp.presented.typ = "access")
         \/ (resp.op = "require_jwt" /\ resp.presented.typ = "refresh") )
        => /\ resp.cause = "WrongTokenType"
           /\ resp.status # 200 /\ resp.pair = Nil /\ resp.claims = Nil

\* C7: refresh with a valid refresh token returns a new pair with the same
\* sub and role, whose access token verifies; it does not read the
\* credential store; every refresh token issued so far still verifies
\* until its own exp.
C7_RefreshRoundTrip ==
    /\ (resp.op = "refresh" /\ resp.status = 200) =>
          /\ resp.pair.access.sub = resp.presented.sub
          /\ resp.pair.access.role = resp.presented.role
          /\ resp.pair.refresh.sub = resp.presented.sub
          /\ resp.pair.refresh.role = resp.presented.role
          /\ verify_access(resp.pair.access, resp.at).ok
    /\ (resp.op = "refresh" => ~resp.readsCreds)
    /\ \A t \in tokens :
          (t.typ = "refresh" /\ now < t.exp) => verify_refresh(t, now).ok

\* C8: login fails identically (401, "invalid credentials", no tokens) when
\* the user does not exist, is inactive, or the password does not match;
\* tokens are issued only when the user exists, is active and matches.
C8_LoginFailureIndistinguishable ==
    resp.op = "login" =>
        IF resp.cause \in {"no_such_user", "inactive", "wrong_password"}
        THEN \* every caller-visible field is the same constant
             /\ resp.status = 401 /\ resp.detail = <<"invalid credentials">>
             /\ resp.pair = Nil /\ resp.claims = Nil
        ELSE resp.cause = "match" /\ resp.status = 200 /\ resp.pair # Nil

C8_Witness ==
    resp.op = "login" /\ resp.cause = "inactive" /\ resp.status = 401

----------------------------------------------------------------------------
(* Claims about the analysis pipeline, checked under SpecAnalyze *)

Has(ev, x) == Index(ev, x) > 0
Before(ev, x, y) == Has(ev, x) /\ Has(ev, y) /\ Index(ev, x) < Index(ev, y)

\* C1: every execution of the pipeline reached through POST /analyze is
\* preceded by a successful access-token verification of the same request:
\* without a bearer token, or with one verify_access rejects, there is no
\* prompt load, no backend call and no audit write.
C1_PipelineOnlyAfterVerification ==
    \A c \in Clients :
        LET ev == call[c].events IN
        (Has(ev, "init_db") \/ Has(ev, "prompt_load") \/ Has(ev, "backend_call")
            \/ Has(ev, "audit_attempt"))
        => (call[c].verified /\ require_jwt(call[c].authorization).ok)

\* C9: an audit row is written only after a successful generation.  If the
\* prompt load or the backend call fails there is no audit write, the
\* backend was invoked at most once and the caller gets an error without a
\* result; if the call succeeds exactly one audit write is attempted, after
\* the call and before the text is returned.
C9_Events ==
    \A c \in Clients :
        LET ev == call[c].events
            failed == Has(ev, "prompt_missing") \/ Has(ev, "backend_failed")
                      \/ Has(ev, "backend_unavailable")
        IN  /\ Count(ev, "backend_call") <= 1
            /\ Count(ev, "audit_attempt") <= 1
            /\ Count(ev, "audit_row") <= Count(ev, "audit_attempt")
            /\ (Has(ev, "backend_unavailable") => ~Has(ev, "backend_call"))
            /\ (Has(ev, "audit_attempt") => Before(ev, "backend_ok", "audit_attempt"))
            /\ (Has(ev, "audit_row") => Before(ev, "audit_attempt", "audit_row"))
            /\ (Has(ev, "return_text") => Before(ev, "audit_attempt", "return_text"))
            /\ (failed => /\ call[c].pc = "done"
                          /\ call[c].status = 500 /\ call[c].body = Nil
                          /\ ~Has(ev, "audit_attempt") /\ ~Has(ev, "audit_row")
                          /\ ~Has(ev, "return_text"))
            /\ ((call[c].pc = "done" /\ Has(ev, "backend_ok"))
                    => Count(ev, "audit_attempt") = 1)

C9_RowStep ==
    analyses' # analyses =>
        /\ Len(analyses') = Len(analyses) + 1
        /\ SubSeq(analyses', 1, Len(analyses)) = analyses
        /\ \E c \in Clients :
              /\ call[c].pc = "audit_save"
              /\ Has(call[c].events, "backend_ok")
              /\ call'[c].pc = "return"
              /\ analyses'[Len(analyses')].response_preview
                     = Take(call[c].assistant_text, 1000)

C9_AuditOnlyAfterSuccess == []C9_Events /\ [][C9_RowStep]_vars

\* one request failed at the backend, another succeeded: one row in all
C9_Witness ==
    \E c, d \in Clients :
        /\ call[c].pc = "done" /\ Has(call[c].events, "backend_failed")
        /\ call[c].status = 500
        /\ call[d].pc = "done" /\ Has(call[d].events, "audit_row")
        /\ Len(analyses) = 1

\* C10: audit persistence never makes an analysis request fail: a run whose
\* prompt is present and whose backend returns text returns that text
\* whether or not the audit store is available (table creation, connect,
\* insert, commit); no persistence error leaves the pipeline.
C10_PersistenceNeverFailsRequest ==
    \A c \in Clients :
        LET ev == call[c].events IN
        ( /\ call[c].pc = "done"
          /\ ~Has(ev, "verify_failed")
          /\ ~Has(ev, "prompt_missing")
          /\ ~Has(ev, "backend_failed") /\ ~Has(ev, "backend_unavailable") )
        => (Has(ev, "return_text") /\ ~Has(ev, "init_db_failed"))

\* a finished json request whose backend text came back from run_analysis
JsonReturned(c) ==
    /\ call[c].pc = "done"
    /\ call[c].req # Nil
    /\ call[c].req.output_format = "json"
    /\ Has(call[c].events, "return_text")

\* C11: with output_format = json and a backend text that is not valid JSON
\* (the literal not json), the call ends in the validation failure (500 with
\* the invalid-JSON detail, not an exception leaving the handler) and no
\* audit row was written for that exchange.
C11_InvalidJsonLeavesNoAuditRow ==
    \A c \in Clients :
        (JsonReturned(c) /\ ~json_loads(call[c].assistant_text).ok)
        => /\ call[c].status = 500
           /\ Has(call[c].events, "invalid_json")
           /\ ~Has(call[c].events, "audit_row")

\* C12: with output_format = json the call returns a result only when the
\* backend text parses as a JSON object; for every other text, valid JSON
\* that is not an object included, it reports the malformed-output
\* validation failure and returns nothing of the text.
C12_JsonResultOnlyForObject ==
    \A c \in Clients :
        JsonReturned(c) =>
            LET j == json_loads(call[c].assistant_text) IN
            IF j.ok /\ j.kind = "dict"
            THEN call[c].status = 200 /\ call[c].body # Nil
            ELSE /\ call[c].status = 500
                 /\ call[c].body = Nil
                 /\ Has(call[c].events, "invalid_json")

Min(a, b) == IF a < b THEN a ELSE b

\* preview is exactly the first min(n, len(text)) characters of text
IsFirstChars(preview, text, n) ==
    /\ Len(preview) = Min(n, Len(text))
    /\ \A i \in 1..Len(preview) : preview[i] = text[i]

\* C13: every audit row has input_preview equal to exactly the first
\* min(500, len(input_text)) characters of the request's input_text and
\* response_preview equal to exactly the first min(1000, len(response_text))
\* characters of the backend text; rows are never updated or deleted, the
\* table only grows.
C13_RowOfCall ==
    \A c \in Clients :
        call[c].row_id > 0 =>
            /\ call[c].row_id <= Len(analyses)
            /\ IsFirstChars(analyses[call[c].row_id].input_preview,
                            call[c].req.input_text, 500)
            /\ IsFirstChars(analyses[call[c].row_id].response_preview,
                            call[c].assistant_text, 1000)

C13_AppendOnly ==
    /\ Len(analyses') >= Len(analyses)
    /\ SubSeq(analyses', 1, Len(analyses)) = analyses
    /\ analyses' # analyses =>
          \E c \in Clients :
              /\ call[c].pc = "audit_save"
              /\ Len(analyses') = Len(analyses) + 1
              /\ IsFirstChars(analyses'[Len(analyses')].input_preview,
                              call[c].req.input_text, 500)
              /\ IsFirstChars(analyses'[Len(analyses')].response_preview,
                              call[c].assistant_text, 1000)

C13_PreviewsTruncatedAppendOnly == []C13_RowOfCall /\ [][C13_AppendOnly]_vars

\* a 10,000-character input and a 1001-character answer: 500 and 1000 kept
C13_Witness ==
    \E c \in Clients :
        /\ call[c].row_id > 0
        /\ Len(call[c].req.input_text) = 10000
        /\ Len(call[c].assistant_text) = 1001
        /\ Len(analyses[call[c].row_id].input_preview) = 500
        /\ Len(analyses[call[c].row_id].response_preview) = 1000
        /\ Len(analyses) >= 2

\* an audit row without its timestamp (its id is its position)
RowSansTime(row) ==
    [model |-> row.model, output_format |-> row.output_format,
     schema |-> row.schema, prompt_chars |-> row.prompt_chars,
     input_preview |-> row.input_preview,
     response_preview |-> row.response_preview]

\* C14: two identical requests, run one after the other or concurrently
\* against a deterministic backend, each perform their own backend call and
\* append their own audit row; the two rows are equal in every field except
\* the timestamp and the id, and the two calls have the same outcome.
C14_IdenticalRequestsIndependent ==
    \A c, d \in Clients :
        (c # d /\ call[c].pc = "done" /\ call[d].pc = "done"
              /\ call[c].req = call[d].req)
        => /\ Count(call[c].events, "backend_call") = 1
           /\ Count(call[d].events, "backend_call") = 1
           /\ call[c].row_id > 0 /\ call[d].row_id > 0
           /\ call[c].row_id # call[d].row_id
           /\ call[c].row_id <= Len(analyses) /\ call[d].row_id <= Len(analyses)
           /\ RowSansTime(analyses[call[c].row_id])
                  = RowSansTime(analyses[call[d].row_id])
           /\ call[c].status = call[d].status
           /\ call[c].body = call[d].body
           /\ call[c].detail = call[d].detail

\* both done, rows 1 and 2, written at different times
C14_Witness ==
    \E c, d \in Clients :
        /\ c # d /\ call[c].pc = "done" /\ call[d].pc = "done"
        /\ call[c].req = call[d].req
        /\ call[c].row_id = 1 /\ call[d].row_id = 2
        /\ analyses[1].created_at # analyses[2].created_at
        /\ call[c].status = 200

\* C15: every database connection a core operation opens (verify_user's
\* lookup, audit_save's insert) is released before the operation returns,
\* on the success and on the failure path: once login and analyze calls have
\* completed, none of their connections is still open.
C15_ConnectionsReleased ==
    /\ (resp.op = "login" => resp.conn # "open")
    /\ \A c \in Clients :
          call[c].pc \in {"return", "done"} => call[c].conn # "open"

====
